---- MODULE Spec2Model ----
(***************************************************************************)
(* A model of the lunch-menu extraction pipeline:                          *)
(*   src/src/image_processing.py  (open_image, extract_black_pixels,       *)
(*                                 preprocess_image)                       *)
(*   src/src/ocr_service.py       (extract_text_from_image)                *)
(*   src/src/llm_parser.py        (create_gemini_client,                   *)
(*                                 parse_menu_with_gemini,                 *)
(*                                 extract_menu_from_ocr)                  *)
(* One behaviour is one invocation of one function: Init draws the         *)
(* function, its arguments and the configuration; the actions are the      *)
(* steps of the function between its calls to external collaborators       *)
(* (instructor/Gemini, Pillow's decoder, Tesseract), whose answers are     *)
(* chosen nondeterministically.  Under SpecSeq a caller makes several      *)
(* invocations in a row; the configuration and the globals are kept.       *)
(***************************************************************************)
EXTENDS Integers, Sequences, FiniteSets, TLC

VARIABLES
    op,              \* the function the caller invoked
    pc,              \* the position of the invocation
    ocr_text,        \* argument ocr_text
    model,           \* argument model of create_gemini_client
    client,          \* argument / local client
    GEMINI_API_KEY,  \* config.GEMINI_API_KEY
    response,        \* local menu_response of parse_menu_with_gemini
    file,            \* what the filesystem holds at image_path
    image,           \* argument / local image
    threshold,       \* argument threshold of extract_black_pixels
    outcome,         \* how the invocation ended: a returned value or a raised exception
    original,        \* the first exception raised during the invocation
    nCreateClient,   \* calls of create_gemini_client
    nFromGemini,     \* calls of instructor.from_gemini
    nPrompt,         \* calls of create_menu_extraction_prompt
    nService,        \* calls of client.chat.completions.create
    TESSERACT_CMD,   \* config.TESSERACT_CMD
    tesseract_cmd,   \* the global pytesseract.pytesseract.tesseract_cmd
    lang,            \* argument lang of extract_text_from_image
    psm,             \* argument psm
    custom_config,   \* argument custom_config
    engine,          \* how pytesseract.image_to_string was called, if it was
    extracted_text,  \* local extracted_text: what image_to_string answered
    warned,          \* whether "No text was extracted" was logged as a warning
    nCmdSet,         \* assignments to pytesseract.pytesseract.tesseract_cmd
    calls            \* invocations the caller has made

vars == <<op, pc, ocr_text, model, client, GEMINI_API_KEY, response, file, image,
          threshold, outcome, original, nCreateClient, nFromGemini, nPrompt, nService,
          TESSERACT_CMD, tesseract_cmd, lang, psm, custom_config, engine,
          extracted_text, warned, nCmdSet, calls>>

llmVars == <<ocr_text, model, client, GEMINI_API_KEY, response,
             nCreateClient, nFromGemini, nPrompt, nService>>

imgVars == <<file, image, threshold>>

ocrVars ==
    <<TESSERACT_CMD, tesseract_cmd, lang, psm, custom_config, engine, extracted_text,
      warned, nCmdSet>>

-----------------------------------------------------------------------------
(* Bounds of the model *)

\* longest OCR text, in characters
MaxTextLen == 2
\* most items in a Menu the service answers with
MaxItems == 2
\* most pixels (width * height) of an image
MaxPixels == 4

-----------------------------------------------------------------------------
(* Python values: a class tag and a payload *)

PyStr(s) == [cls |-> "str", val |-> s]
PyNone == [cls |-> "NoneType", val |-> <<>>]
PyInt(n) == [cls |-> "int", val |-> <<n>>]
PyList(xs) == [cls |-> "list", val |-> xs]
PyDict(xs) == [cls |-> "dict", val |-> xs]
MenuObj(items) == [cls |-> "Menu", val |-> items]
InstructorClient == [cls |-> "Instructor", val |-> <<>>]
MagicMock == [cls |-> "MagicMock", val |-> <<>>]

\* bool(v): the truth value Python gives v in `if not v`
Truthy(v) ==
    CASE v.cls = "NoneType" -> FALSE
      [] v.cls = "int" -> v.val[1] # 0
      [] v.cls \in {"str", "list", "dict"} -> Len(v.val) > 0
      [] OTHER -> TRUE

\* isinstance(v, c)
IsInstance(v, c) == v.cls = c

\* str.strip() == "": the text holds nothing but whitespace
Whitespace == {" ", "\t", "\n"}
IsBlank(v) == v.cls = "str" /\ \A i \in 1..Len(v.val) : v.val[i] \in Whitespace

(* Exceptions: a class and a message, the message a sequence of fragments so  *)
(* that an f-string is a concatenation.                                       *)
Exc(c, m) == [cls |-> c, msg |-> m]
NoExc == Exc("-", <<>>)

\* whether message m contains message part as a contiguous piece
Contains(m, part) ==
    \E i \in 1..(Len(m) - Len(part) + 1) : SubSeq(m, i, i + Len(part) - 1) = part

Returned(v) == [kind |-> "returned", value |-> v, exc |-> NoExc]
Raised(e) == [kind |-> "raised", value |-> PyNone, exc |-> e]
Pending == [kind |-> "pending", value |-> PyNone, exc |-> NoExc]

-----------------------------------------------------------------------------
(* The schema: MenuItem and Menu *)

MenuItemFields == {"name", "date", "price", "type"}

MenuItems ==
    { [name |-> "Goveja juha", date |-> "2024-12-02", price |-> "8,60 EUR", type |-> "meat"],
      [name |-> "Postrv", date |-> "2024-12-03", price |-> "9,20 EUR", type |-> "fish"] }

SeqsUpTo(S, n) == UNION { [1..k -> S] : k \in 0..n }

Menus == { MenuObj(items) : items \in SeqsUpTo(MenuItems, MaxItems) }

-----------------------------------------------------------------------------
(* The inputs *)

Chars == Whitespace \cup {"a"}
Texts == { PyStr(s) : s \in SeqsUpTo(Chars, MaxTextLen) }
NonStrings == { PyNone, PyInt(0), PyInt(123), PyList(<<>>), PyList(<<"x">>), PyDict(<<>>) }
OcrInputs == Texts \cup NonStrings

DefaultModel == PyStr(<<"gemini-2.5-flash-preview-05-20">>)
Models == { DefaultModel, PyInt(123) }
Clients == { InstructorClient, MagicMock, PyStr(<<"not_a_client">>) }
ApiKeys == { PyStr(<<>>), PyNone, PyStr(<<"dummy-key">>) }

\* what client.chat.completions.create may hand back
Responses ==
    Menus \cup { PyNone, PyDict(<<>>), PyDict(<<"items">>), PyList(<<>>), PyList(<<"menu">>),
                 PyStr(<<"{}">>) }

\* what an external collaborator may raise (subclasses of Exception)
ExternalErrors ==
    { Exc("ConnectionError", <<"connection reset">>),
      Exc("ValidationError", <<"1 validation error for Menu">>) }

-----------------------------------------------------------------------------
(* llm_parser.py: the decisions and the exception handlers *)

\* the credential check left out
CreateGuard_NoKeyCheck(key, m) == IF ~IsInstance(m, "str") THEN "bad_model" ELSE "ok"

\* create_gemini_client, lines 55-59: the checks before the client is built
CreateGuard(key, m) ==
    IF ~Truthy(key) THEN "no_key"
    ELSE IF ~IsInstance(m, "str") THEN "bad_model"
    ELSE "ok"

\* create_gemini_client, lines 68-70: except Exception as e
CreateHandler(e) == Exc("Exception", <<"Failed to create Gemini client: ">> \o e.msg)

\* the client checked before the text
ParseGuard_ClientFirst(text, c, key) ==
    IF ~IsInstance(c, "Instructor") THEN "bad_client"
    ELSE IF ~Truthy(text) THEN "return_empty"
    ELSE IF ~IsInstance(text, "str") THEN "bad_text"
    ELSE IF ~Truthy(key) THEN "no_key"
    ELSE "ok"

\* parse_menu_with_gemini, lines 129-137: the checks before the prompt is built
ParseGuard(text, c, key) ==
    IF ~Truthy(text) THEN "return_empty"
    ELSE IF ~IsInstance(text, "str") THEN "bad_text"
    ELSE IF ~IsInstance(c, "Instructor") THEN "bad_client"
    ELSE IF ~Truthy(key) THEN "no_key"
    ELSE "ok"

\* the isinstance check left out
ResponseValid_TruthyOnly(r) == Truthy(r)

\* parse_menu_with_gemini, line 152: the re-validation of the response
ResponseValid(r) == ~(~Truthy(r) \/ ~IsInstance(r, "Menu"))

\* parse_menu_with_gemini, lines 158-160: except Exception as e
ParseHandler(e) == Exc("Exception", <<"Failed to call Gemini API: ">> \o e.msg)

\* the empty-text check left out
ExtractGuard_NoEmptyCheck(text) == IF ~IsInstance(text, "str") THEN "bad_text" ELSE "ok"

\* extract_menu_from_ocr, lines 182-185: the checks before the try block
ExtractGuard(text) ==
    IF ~Truthy(text) THEN "return_empty"
    ELSE IF ~IsInstance(text, "str") THEN "bad_text"
    ELSE "ok"

\* the cause left out of the message
ExtractHandler_NoCause(e) == Exc("Exception", <<"Failed to extract menu from OCR text">>)

\* extract_menu_from_ocr, lines 192-194: except Exception as e
ExtractHandler(e) ==
    Exc("Exception", <<"Failed to extract menu from OCR text: ">> \o e.msg)

\* an exception leaving create_gemini_client or parse_menu_with_gemini reaches
\* the try block of extract_menu_from_ocr when that is the caller
Escaping(e) == IF op = "extract_menu_from_ocr" THEN ExtractHandler(e) ELSE e

-----------------------------------------------------------------------------
(* The steps *)

Finish(o, first) ==
    /\ pc' = "done"
    /\ outcome' = o
    /\ original' = IF original = NoExc THEN first ELSE original

\* extract_menu_from_ocr, lines 182-188: up to the call of create_gemini_client
ExtractMenuFromOcr ==
    /\ pc = "extract_menu_from_ocr"
    /\ LET g == ExtractGuard(ocr_text) IN
         IF g = "return_empty" THEN Finish(Returned(PyList(<<>>)), NoExc)
         ELSE IF g = "bad_text"
         THEN Finish(Raised(Exc("ValueError", <<"OCR text must be a string">>)),
                     Exc("ValueError", <<"OCR text must be a string">>))
         ELSE pc' = "create_gemini_client" /\ UNCHANGED <<outcome, original>>
    /\ UNCHANGED <<op, llmVars, imgVars, ocrVars, calls>>

\* create_gemini_client, lines 55-59
CreateGeminiClient ==
    /\ pc = "create_gemini_client"
    /\ nCreateClient' = nCreateClient + 1
    /\ LET g == CreateGuard(GEMINI_API_KEY, model) IN
         IF g = "no_key"
         THEN Finish(Raised(Escaping(Exc("ValueError", <<"GEMINI_API_KEY is not configured">>))),
                     Exc("ValueError", <<"GEMINI_API_KEY is not configured">>))
         ELSE IF g = "bad_model"
         THEN Finish(Raised(Escaping(Exc("ValueError", <<"Model name must be a string">>))),
                     Exc("ValueError", <<"Model name must be a string">>))
         ELSE pc' = "from_gemini" /\ UNCHANGED <<outcome, original>>
    /\ UNCHANGED <<op, ocr_text, model, client, GEMINI_API_KEY, response,
                   nFromGemini, nPrompt, nService, imgVars, ocrVars, calls>>

\* create_gemini_client, lines 61-70: instructor.from_gemini answers or raises;
\* extract_menu_from_ocr, line 189: the client goes to parse_menu_with_gemini
FromGemini ==
    /\ pc = "from_gemini"
    /\ nFromGemini' = nFromGemini + 1
    /\ \/ /\ client' = InstructorClient
          /\ IF op = "extract_menu_from_ocr"
             THEN pc' = "parse_menu_with_gemini" /\ UNCHANGED <<outcome, original>>
             ELSE Finish(Returned(InstructorClient), NoExc)
       \/ /\ \E e \in ExternalErrors : Finish(Raised(Escaping(CreateHandler(e))), e)
          /\ UNCHANGED client
    /\ UNCHANGED <<op, ocr_text, model, GEMINI_API_KEY, response,
                   nCreateClient, nPrompt, nService, imgVars, ocrVars, calls>>

\* parse_menu_with_gemini, lines 129-139: the checks, then the prompt
ParseMenuWithGemini ==
    /\ pc = "parse_menu_with_gemini"
    /\ LET g == ParseGuard(ocr_text, client, GEMINI_API_KEY)
           e == CASE g = "bad_text" -> Exc("ValueError", <<"OCR text must be a string">>)
                  [] g = "bad_client" ->
                       Exc("ValueError",
                           <<"Client must be an instance of instructor.client.Instructor, but got ",
                             client.cls>>)
                  [] OTHER -> Exc("ValueError", <<"GEMINI_API_KEY is not configured">>)
       IN IF g = "return_empty"
          THEN Finish(Returned(PyList(<<>>)), NoExc) /\ UNCHANGED nPrompt
          ELSE IF g = "ok"
          THEN /\ pc' = "create"
               /\ nPrompt' = nPrompt + 1
               /\ UNCHANGED <<outcome, original>>
          ELSE Finish(Raised(Escaping(e)), e) /\ UNCHANGED nPrompt
    /\ UNCHANGED <<op, ocr_text, model, client, GEMINI_API_KEY, response,
                   nCreateClient, nFromGemini, nService, imgVars, ocrVars, calls>>

\* the service called a second time after its first failure
Create_Retrying ==
    /\ pc = "create"
    /\ nService' = nService + 1
    /\ \/ /\ \E r \in Responses : response' = r
          /\ pc' = "validate"
          /\ UNCHANGED <<outcome, original>>
       \/ /\ \E e \in ExternalErrors :
                IF nService = 0
                THEN UNCHANGED <<pc, outcome, original>>
                ELSE Finish(Raised(Escaping(ParseHandler(e))), e)
          /\ UNCHANGED response
    /\ UNCHANGED <<op, ocr_text, model, client, GEMINI_API_KEY,
                   nCreateClient, nFromGemini, nPrompt, imgVars, ocrVars, calls>>

\* parse_menu_with_gemini, lines 141-149 and 158-160:
\* client.chat.completions.create answers or raises
Create ==
    /\ pc = "create"
    /\ nService' = nService + 1
    /\ \/ /\ \E r \in Responses : response' = r
          /\ pc' = "validate"
          /\ UNCHANGED <<outcome, original>>
       \/ /\ \E e \in ExternalErrors : Finish(Raised(Escaping(ParseHandler(e))), e)
          /\ UNCHANGED response
    /\ UNCHANGED <<op, ocr_text, model, client, GEMINI_API_KEY,
                   nCreateClient, nFromGemini, nPrompt, imgVars, ocrVars, calls>>

\* parse_menu_with_gemini, lines 152-160; extract_menu_from_ocr, lines 190-191
Validate ==
    /\ pc = "validate"
    /\ IF ResponseValid(response)
       THEN Finish(Returned(response), NoExc)
       ELSE Finish(Raised(Escaping(ParseHandler(
                       Exc("ValueError", <<"Invalid response from Gemini API">>)))),
                   Exc("ValueError", <<"Invalid response from Gemini API">>))
    /\ UNCHANGED <<op, llmVars, imgVars, ocrVars, calls>>

-----------------------------------------------------------------------------
(* image_processing.py: images are a mode, a size and a pixel per coordinate *)

Modes == {"RGB", "L", "RGBA"}

\* the sample pixels of each mode: around the default threshold and at the extremes
Palette(m) ==
    CASE m = "RGB" -> { <<0, 0, 0>>, <<39, 39, 39>>, <<40, 39, 39>>, <<39, 39, 40>>,
                        <<255, 255, 255>> }
      [] m = "L" -> { <<0>>, <<39>>, <<40>>, <<41>>, <<255>> }
      [] m = "RGBA" -> { <<0, 0, 0, 0>>, <<0, 0, 0, 255>>, <<39, 40, 39, 255>>,
                         <<39, 39, 39, 40>>, <<255, 255, 255, 255>> }

Sizes == { s \in (1..MaxPixels) \X (1..MaxPixels) : s[1] * s[2] <= MaxPixels }

Coords(w, h) == (1..w) \X (1..h)

PilImage(m, w, h, pixels) ==
    [cls |-> "Image", mode |-> m, width |-> w, height |-> h, px |-> pixels]

Images ==
    UNION { { PilImage(ms[1], ms[2][1], ms[2][2], f) :
                f \in [Coords(ms[2][1], ms[2][2]) -> Palette(ms[1])] } :
            ms \in Modes \X Sizes }

NonImages == { PyStr(<<"not_an_image">>), PyNone }

\* extract_black_pixels, line 56: threshold: int = 40
DefaultThreshold == 40

Thresholds == {0, DefaultThreshold, DefaultThreshold + 1, 255}

\* what the filesystem holds at image_path: nothing, bytes no codec identifies, an
\* image file cut short after its header, or an image
Missing == [cls |-> "missing", val |-> <<>>]
Undecodable == [cls |-> "undecodable", val |-> <<>>]
Truncated == [cls |-> "truncated", val |-> <<>>]
Files == Images \cup {Missing, Undecodable, Truncated}

\* Image.open is lazy: it reads the header (mode, size) and leaves the pixel data to
\* the first use; of a file cut short it returns an image whose pixels cannot be read
LazyImage == PilImage("RGB", 1, 1, <<>>)
Opens(f) == IsInstance(f, "Image") \/ f = Truncated
Opened(f) == IF f = Truncated THEN LazyImage ELSE f

\* whether Image.load(), which convert() and np.array() call first, reads the pixels
Loadable(img) == DOMAIN img.px = Coords(img.width, img.height)

\* what Image.load() raises on a file cut short: an OSError, of which IOError is
\* the alias
LoadError == Exc("IOError", <<"image file is truncated">>)

\* the images small enough for the functions that do not look at the pixels one by one
SmallImages == { img \in Images : img.width * img.height <= 2 }

\* Image.open(image_path), line 23
ImageOpenError(f) ==
    IF f = Missing
    THEN Exc("FileNotFoundError", <<"[Errno 2] No such file or directory: ", "invalid_path.png">>)
    ELSE Exc("UnidentifiedImageError", <<"cannot identify image file ", "invalid_path.png">>)

\* the wrapping error without the message of the failure it wraps
OpenHandler_NoCause(e) == Exc("IOError", <<"Error opening image">>)

\* open_image, lines 29-31: except Exception as e
OpenHandler(e) == Exc("IOError", <<"Error opening image: ">> \o e.msg)

\* image.convert("RGB") of one pixel: grey is repeated, alpha is dropped
ToRGB(m, v) ==
    CASE m = "L" -> <<v[1], v[1], v[1]>>
      [] m = "RGBA" -> <<v[1], v[2], v[3]>>
      [] OTHER -> v

\* extract_black_pixels, lines 76-79
ConvertRGB(img) ==
    IF img.mode # "RGB"
    THEN [img EXCEPT !.mode = "RGB",
                     !.px = [p \in DOMAIN img.px |-> ToRGB(img.mode, img.px[p])]]
    ELSE img

\* np.array(img_rgb), line 81: rows first, shape (height, width, 3)
NpArray(img) == [y \in 1..img.height |-> [x \in 1..img.width |-> img.px[<<x, y>>]]]

\* np.any in place of np.all
AllBelow_Any(v, t) == \E c \in DOMAIN v : v[c] < t

\* whether all channels of one pixel are below the threshold, line 83
AllBelow(v, t) == \A c \in DOMAIN v : v[c] < t

\* np.all(arr < threshold, axis=-1), line 83
Mask(arr, t) == [y \in DOMAIN arr |-> [x \in DOMAIN arr[y] |-> AllBelow(arr[y][x], t)]]

\* the two branches of np.where exchanged
Where_Inverted(mask) ==
    [y \in DOMAIN mask |-> [x \in DOMAIN mask[y] |-> (IF mask[y][x] THEN 255 ELSE 0) % 256]]

\* np.where(mask, 0, 255).astype(np.uint8), line 85
Where(mask) ==
    [y \in DOMAIN mask |-> [x \in DOMAIN mask[y] |-> (IF mask[y][x] THEN 0 ELSE 255) % 256]]

\* the array's shape read as (width, height)
FromArrayL_ShapeAsSize(arr) ==
    PilImage("L", Len(arr), Len(arr[1]),
             [p \in Coords(Len(arr), Len(arr[1])) |-> <<arr[p[1]][p[2]]>>])

\* Image.fromarray(binary_arr, mode="L"), line 87: size is (columns, rows)
FromArrayL(arr) ==
    PilImage("L", Len(arr[1]), Len(arr),
             [p \in Coords(Len(arr[1]), Len(arr)) |-> <<arr[p[2]][p[1]]>>])

\* extract_black_pixels, lines 76-89
extract_black_pixels(img, t) == FromArrayL(Where(Mask(NpArray(ConvertRGB(img)), t)))

\* preprocess_image, line 109: threshold=40
PreprocessThreshold == 40

\* open_image, lines 22-31; preprocess_image, lines 107-109 and 116-118
OpenImage ==
    /\ pc = "open_image"
    /\ IF Opens(file)
       THEN /\ image' = Opened(file)
            /\ IF op = "preprocess_image"
               THEN /\ pc' = "extract_black_pixels"
                    /\ threshold' = PreprocessThreshold
                    /\ UNCHANGED <<outcome, original>>
               ELSE Finish(Returned(Opened(file)), NoExc) /\ UNCHANGED threshold
       ELSE /\ Finish(Raised(OpenHandler(ImageOpenError(file))), ImageOpenError(file))
            /\ UNCHANGED <<image, threshold>>
    /\ UNCHANGED <<op, llmVars, file, ocrVars, calls>>

\* extract_black_pixels, lines 71-89; preprocess_image, lines 111-114
ExtractBlackPixels ==
    /\ pc = "extract_black_pixels"
    /\ IF ~IsInstance(image, "Image")
       THEN Finish(Raised(Exc("TypeError", <<"Input must be a PIL Image object">>)),
                   Exc("TypeError", <<"Input must be a PIL Image object">>))
       ELSE IF ~Loadable(image)
       THEN Finish(Raised(LoadError), LoadError)
       ELSE Finish(Returned(extract_black_pixels(image, threshold)), NoExc)
    /\ UNCHANGED <<op, llmVars, imgVars, ocrVars, calls>>

\* image.convert("L") of one pixel, line 49: Pillow's ITU-R 601-2 luma transform
ToL(m, v) ==
    IF m = "L" THEN v
    ELSE << (v[1] * 19595 + v[2] * 38470 + v[3] * 7471 + 32768) \div 65536 >>

\* image.convert("L"), line 49
ConvertL(img) ==
    [img EXCEPT !.mode = "L", !.px = [p \in DOMAIN img.px |-> ToL(img.mode, img.px[p])]]

\* convert_to_grayscale, lines 45-53
ConvertToGrayscale ==
    /\ pc = "convert_to_grayscale"
    /\ IF ~IsInstance(image, "Image")
       THEN Finish(Raised(Exc("TypeError", <<"Input must be a PIL Image object">>)),
                   Exc("TypeError", <<"Input must be a PIL Image object">>))
       ELSE IF ~Loadable(image)
       THEN Finish(Raised(LoadError), LoadError)
       ELSE Finish(Returned(ConvertL(image)), NoExc)
    /\ UNCHANGED <<op, llmVars, imgVars, ocrVars, calls>>

\* the names the module src.image_processing defines (lines 11, 34, 56, 92) or
\* imports (lines 1-8)
ImageProcessingNames ==
    { "open_image", "convert_to_grayscale", "extract_black_pixels", "preprocess_image",
      "logging", "np", "Image", "threshold_otsu", "logger" }

NoAttribute(name) ==
    Exc("AttributeError", <<"module 'src.image_processing' has no attribute ", name>>)

\* image_processing.apply_binarization(img), as tests/test_image_processor.py line 62
\* calls it: the lookup of the name in the module comes before any call
ApplyBinarization ==
    /\ pc = "apply_binarization"
    /\ op \notin ImageProcessingNames
    /\ Finish(Raised(NoAttribute(op)), NoAttribute(op))
    /\ UNCHANGED <<op, llmVars, imgVars, ocrVars, calls>>

-----------------------------------------------------------------------------
(* ocr_service.py *)

\* pytesseract.pytesseract.tesseract_cmd as the library sets it at import
DefaultCmd == PyStr(<<"tesseract">>)

\* config.py, line 30: os.getenv("TESSERACT_CMD") is None, empty or a path
TesseractCmds == { PyNone, PyStr(<<>>), PyStr(<<"/usr/bin/tesseract">>) }

Langs == {"slv", "eng"}
Psms == {3, 6}
CustomConfigs == { PyStr(<<>>), PyStr(<<"--oem 1">>) }
OcrImages == { img \in Images : img.width * img.height = 1 } \cup NonImages

EngineCall(cmd, l, cfg) == [cls |-> "call", cmd |-> cmd, lang |-> l, config |-> cfg]
NoEngineCall == [cls |-> "none"]

\* the classes a class derives from, itself included; IOError is another name of
\* OSError
Ancestors(c) ==
    CASE c = "TesseractError" -> {"TesseractError", "RuntimeError", "Exception"}
      [] c = "TesseractNotFoundError" ->
             {"TesseractNotFoundError", "OSError", "IOError", "Exception"}
      [] c = "FileNotFoundError" -> {"FileNotFoundError", "OSError", "IOError", "Exception"}
      [] c = "UnidentifiedImageError" ->
             {"UnidentifiedImageError", "OSError", "IOError", "Exception"}
      [] c \in {"OSError", "IOError"} -> {"OSError", "IOError", "Exception"}
      [] OTHER -> {c, "Exception"}

IsSubclass(c, base) == base \in Ancestors(c)

\* what pytesseract.image_to_string may raise: the engine exits with an error (an
\* unsupported language pack, a corrupt input), the binary is missing, a file is
\* missing, an argument has the wrong type, the process times out
EngineErrors ==
    { Exc("TesseractError", <<"(1, 'Error opening data file slv.traineddata')">>),
      Exc("TesseractNotFoundError", <<"tesseract is not installed or it's not in your PATH">>),
      Exc("FileNotFoundError", <<"[Errno 2] No such file or directory: ", "tess_input.PNG">>),
      Exc("TypeError", <<"Unsupported image object">>),
      Exc("RuntimeError", <<"Tesseract process timeout">>) }

\* the type check left out
OcrInputValid_NoCheck(img) == TRUE

\* extract_text_from_image, line 43
OcrInputValid(img) == IsInstance(img, "Image")

\* the command path assigned whether or not the configuration sets it
CommandPath_Unconditional(cfg, cur) == cfg

\* extract_text_from_image, lines 49-50: the value of the global after them
CommandPath(cfg, cur) == IF Truthy(cfg) THEN cfg ELSE cur

\* extract_text_from_image, lines 54-56: tesseract_config
TesseractConfig(p, custom) ==
    <<"--psm ", p>> \o (IF Truthy(custom) THEN <<" ">> \o custom.val ELSE <<>>)

\* pytesseract.TesseractError(message), line 84: the class is declared with
\* __init__(self, status, message), so building it from one argument raises TypeError
NewTesseractError(m) ==
    Exc("TypeError",
        <<"TesseractError.__init__() missing 1 required positional argument: 'message'">>)

\* extract_text_from_image, lines 78-92: the except clauses, in their order
OcrHandler(e) ==
    IF IsSubclass(e.cls, "TypeError")
    THEN Exc("TypeError", <<"Invalid input: ">> \o e.msg)
    ELSE IF IsSubclass(e.cls, "TesseractError")
    THEN NewTesseractError(<<"OCR processing failed: ">> \o e.msg)
    ELSE IF IsSubclass(e.cls, "FileNotFoundError")
    THEN e
    ELSE Exc("Exception", <<"OCR processing failed with unexpected error: ">> \o e.msg)

RECURSIVE LStrip(_)
LStrip(s) == IF Len(s) > 0 /\ Head(s) \in Whitespace THEN LStrip(Tail(s)) ELSE s

RECURSIVE RStrip(_)
RStrip(s) ==
    IF Len(s) > 0 /\ s[Len(s)] \in Whitespace THEN RStrip(SubSeq(s, 1, Len(s) - 1)) ELSE s

\* str.strip()
Strip(s) == RStrip(LStrip(s))

\* extract_text_from_image, line 68: text_length
TextLength(text) == Len(Strip(text.val))

\* the text returned without its surrounding whitespace
OcrReturn_Stripped(text) == PyStr(Strip(text.val))

\* extract_text_from_image, line 76: return extracted_text
OcrReturn(text) == text

\* extract_text_from_image, lines 41-58: the type check, the command path, the options
ExtractTextFromImage ==
    /\ pc = "extract_text_from_image"
    /\ IF ~OcrInputValid(image)
       THEN /\ Finish(Raised(OcrHandler(Exc("TypeError",
                                  <<"Expected PIL Image object, got ", image.cls>>))),
                      Exc("TypeError", <<"Expected PIL Image object, got ", image.cls>>))
            /\ UNCHANGED <<tesseract_cmd, nCmdSet>>
       ELSE /\ tesseract_cmd' = CommandPath(TESSERACT_CMD, tesseract_cmd)
            /\ nCmdSet' = IF Truthy(TESSERACT_CMD) THEN nCmdSet + 1 ELSE nCmdSet
            /\ pc' = "image_to_string"
            /\ UNCHANGED <<outcome, original>>
    /\ UNCHANGED <<op, llmVars, imgVars, TESSERACT_CMD, lang, psm, custom_config,
                   engine, extracted_text, warned, calls>>

\* extract_text_from_image, lines 61-76 and 78-92: pytesseract.image_to_string
\* answers or raises
ImageToString ==
    /\ pc = "image_to_string"
    /\ engine' = EngineCall(tesseract_cmd, lang, TesseractConfig(psm, custom_config))
    /\ \/ \E t \in Texts :
            /\ extracted_text' = t
            /\ warned' = (TextLength(t) = 0)
            /\ Finish(Returned(OcrReturn(t)), NoExc)
       \/ \E e \in EngineErrors :
            /\ Finish(Raised(OcrHandler(e)), e)
            /\ UNCHANGED <<extracted_text, warned>>
    /\ UNCHANGED <<op, llmVars, imgVars, TESSERACT_CMD, tesseract_cmd, lang, psm,
                   custom_config, nCmdSet, calls>>

-----------------------------------------------------------------------------
(* One invocation *)

Ops == {"extract_menu_from_ocr", "parse_menu_with_gemini", "create_gemini_client",
        "open_image", "extract_black_pixels", "preprocess_image",
        "convert_to_grayscale", "apply_binarization", "extract_text_from_image"}

\* the arguments and the configuration of extract_text_from_image when another
\* function is invoked
OcrIdle ==
    /\ TESSERACT_CMD = PyNone
    /\ lang = "slv" /\ psm = 3 /\ custom_config = PyStr(<<>>)

InitLlm ==
    /\ op \in {"extract_menu_from_ocr", "parse_menu_with_gemini", "create_gemini_client"}
    /\ pc = op
    /\ GEMINI_API_KEY \in ApiKeys
    /\ ocr_text \in (IF op = "create_gemini_client" THEN {PyNone} ELSE OcrInputs)
    /\ client \in (IF op = "parse_menu_with_gemini" THEN Clients ELSE {PyNone})
    /\ model \in (IF op = "create_gemini_client" THEN Models ELSE {DefaultModel})
    /\ file = Missing /\ image = PyNone /\ threshold = PreprocessThreshold

InitImg ==
    /\ op \in {"open_image", "extract_black_pixels", "preprocess_image",
               "convert_to_grayscale", "apply_binarization"}
    /\ pc = (IF op = "preprocess_image" THEN "open_image" ELSE op)
    /\ file \in (IF op \in {"open_image", "preprocess_image"} THEN Files ELSE {Missing})
    /\ image \in (CASE op = "extract_black_pixels" -> Images \cup NonImages
                    [] op = "convert_to_grayscale" ->
                         SmallImages \cup NonImages \cup {LazyImage}
                    [] op = "apply_binarization" ->
                         { img \in SmallImages : img.mode = "L" } \cup NonImages
                    [] OTHER -> {PyNone})
    /\ threshold \in (IF op = "extract_black_pixels" THEN Thresholds ELSE {PreprocessThreshold})
    /\ GEMINI_API_KEY = PyStr(<<>>) /\ ocr_text = PyNone /\ client = PyNone
    /\ model = DefaultModel

InitOcr ==
    /\ op = "extract_text_from_image"
    /\ pc = op
    /\ image \in OcrImages
    /\ lang \in Langs /\ psm \in Psms /\ custom_config \in CustomConfigs
    /\ TESSERACT_CMD \in TesseractCmds
    /\ file = Missing /\ threshold = PreprocessThreshold
    /\ GEMINI_API_KEY = PyStr(<<>>) /\ ocr_text = PyNone /\ client = PyNone
    /\ model = DefaultModel

Init ==
    /\ \/ InitLlm /\ OcrIdle
       \/ InitImg /\ OcrIdle
       \/ InitOcr
    /\ response = PyNone
    /\ outcome = Pending
    /\ original = NoExc
    /\ nCreateClient = 0 /\ nFromGemini = 0 /\ nPrompt = 0 /\ nService = 0
    /\ tesseract_cmd = DefaultCmd
    /\ engine = NoEngineCall /\ extracted_text = PyNone
    /\ warned = FALSE /\ nCmdSet = 0
    /\ calls = 1

Next ==
    \/ ExtractMenuFromOcr
    \/ CreateGeminiClient
    \/ FromGemini
    \/ ParseMenuWithGemini
    \/ Create
    \/ Validate
    \/ OpenImage
    \/ ExtractBlackPixels
    \/ ConvertToGrayscale
    \/ ApplyBinarization
    \/ ExtractTextFromImage
    \/ ImageToString

Spec == Init /\ [][Next]_vars

-----------------------------------------------------------------------------
(* Several invocations in one process, one after the other, as the pipeline  *)
(* of scripts/test_menu_extraction.py makes them: the configuration and the  *)
(* globals stay, the arguments and the locals are new with each call.        *)

MaxCalls == 2

OnePixel == PilImage("RGB", 1, 1, [p \in Coords(1, 1) |-> <<0, 0, 0>>])

NoArguments ==
    [op |-> "idle", ocr_text |-> PyNone, client |-> PyNone, model |-> DefaultModel,
     file |-> Missing, image |-> PyNone, threshold |-> PreprocessThreshold,
     lang |-> "slv", psm |-> 3, custom_config |-> PyStr(<<>>)]

\* the calls the caller may make
SeqCalls ==
    { [NoArguments EXCEPT !.op = "preprocess_image", !.file = f] : f \in {OnePixel, Missing} }
    \cup { [NoArguments EXCEPT !.op = "extract_text_from_image", !.image = i] :
             i \in {OnePixel, PyNone} }
    \cup { [NoArguments EXCEPT !.op = "extract_menu_from_ocr", !.ocr_text = t] :
             t \in {PyStr(<<>>), PyStr(<<"a">>)} }
    \cup { [NoArguments EXCEPT !.op = "parse_menu_with_gemini", !.ocr_text = PyStr(<<"a">>),
                               !.client = InstructorClient],
           [NoArguments EXCEPT !.op = "create_gemini_client"],
           [NoArguments EXCEPT !.op = "open_image", !.file = OnePixel],
           [NoArguments EXCEPT !.op = "extract_black_pixels", !.image = OnePixel],
           [NoArguments EXCEPT !.op = "convert_to_grayscale", !.image = OnePixel],
           [NoArguments EXCEPT !.op = "apply_binarization", !.image = OnePixel] }

\* the process after the modules are imported and before the first call
InitSeq ==
    /\ op = "idle" /\ pc = "idle"
    /\ calls = 0
    /\ GEMINI_API_KEY \in ApiKeys
    /\ TESSERACT_CMD \in TesseractCmds
    /\ tesseract_cmd = DefaultCmd
    /\ ocr_text = PyNone /\ client = PyNone /\ model = DefaultModel
    /\ file = Missing /\ image = PyNone /\ threshold = PreprocessThreshold
    /\ lang = "slv" /\ psm = 3 /\ custom_config = PyStr(<<>>)
    /\ response = PyNone
    /\ outcome = Pending
    /\ original = NoExc
    /\ nCreateClient = 0 /\ nFromGemini = 0 /\ nPrompt = 0 /\ nService = 0
    /\ engine = NoEngineCall /\ extracted_text = PyNone
    /\ warned = FALSE /\ nCmdSet = 0

\* the caller makes its next call: new arguments and new locals, the same
\* configuration and the same globals
Invoke ==
    /\ pc \in {"idle", "done"}
    /\ calls < MaxCalls
    /\ calls' = calls + 1
    /\ \E c \in SeqCalls :
         /\ op' = c.op
         /\ pc' = (IF c.op = "preprocess_image" THEN "open_image" ELSE c.op)
         /\ ocr_text' = c.ocr_text /\ client' = c.client /\ model' = c.model
         /\ file' = c.file /\ image' = c.image /\ threshold' = c.threshold
         /\ lang' = c.lang /\ psm' = c.psm /\ custom_config' = c.custom_config
    /\ response' = PyNone
    /\ outcome' = Pending
    /\ original' = NoExc
    /\ nCreateClient' = 0 /\ nFromGemini' = 0 /\ nPrompt' = 0 /\ nService' = 0
    /\ engine' = NoEngineCall /\ extracted_text' = PyNone
    /\ warned' = FALSE /\ nCmdSet' = 0
    /\ UNCHANGED <<GEMINI_API_KEY, TESSERACT_CMD, tesseract_cmd>>

NextSeq ==
    \/ Next
    \/ Invoke

SpecSeq == InitSeq /\ [][NextSeq]_vars

-----------------------------------------------------------------------------
(* The claims about the structurer (llm_parser.py) *)

EmptyText == PyStr(<<>>)
NonEmptyText == IsInstance(ocr_text, "str") /\ Truthy(ocr_text)
NoExternalCall == nCreateClient = 0 /\ nFromGemini = 0 /\ nService = 0

C2_WhitespaceShortCircuits ==
    (op = "extract_menu_from_ocr" /\ IsBlank(ocr_text) /\ ocr_text # EmptyText)
        => /\ NoExternalCall
           /\ pc = "done" => outcome = Returned(PyList(<<>>))

\* C3: extract_menu_from_ocr on any value that is not a string raises a
\* type/invalid-argument error before create_gemini_client is called, and never
\* returns normally.
C3_NonStringRejected ==
    (op = "extract_menu_from_ocr" /\ ~IsInstance(ocr_text, "str"))
        => /\ nCreateClient = 0
           /\ pc = "done" => /\ outcome.kind = "raised"
                             /\ outcome.exc.cls \in {"TypeError", "ValueError"}

KeyMissingMessage == <<"GEMINI_API_KEY is not configured">>

\* C4 as stated: with no credential, extract_menu_from_ocr on a non-empty text
\* ends with the ValueError "GEMINI_API_KEY is not configured" reaching the caller
\* as a ValueError, before the prompt is built and before any service call.
C4_KeyErrorReachesCallerAsValueError ==
    (op = "extract_menu_from_ocr" /\ NonEmptyText /\ ~Truthy(GEMINI_API_KEY))
        => /\ nPrompt = 0 /\ nService = 0
           /\ pc = "done" => /\ outcome.kind = "raised"
                             /\ outcome.exc = Exc("ValueError", KeyMissingMessage)

\* C4 as amended: with no credential, extract_menu_from_ocr on a non-empty text
\* fails in create_gemini_client, before the client is built, the prompt is built
\* or the service is called; the ValueError raised there reaches the caller
\* wrapped as a generic Exception whose message contains
\* "GEMINI_API_KEY is not configured".
C4_KeyErrorReachesCallerWrapped ==
    (op = "extract_menu_from_ocr" /\ NonEmptyText /\ ~Truthy(GEMINI_API_KEY))
        => /\ nFromGemini = 0 /\ nPrompt = 0 /\ nService = 0
           /\ pc = "done" => /\ outcome.kind = "raised"
                             /\ original = Exc("ValueError", KeyMissingMessage)
                             /\ outcome.exc.cls = "Exception"
                             /\ Contains(outcome.exc.msg, KeyMissingMessage)

C4_Witness ==
    /\ op = "extract_menu_from_ocr" /\ NonEmptyText /\ GEMINI_API_KEY = PyNone
    /\ pc = "done" /\ outcome.kind = "raised" /\ nCreateClient = 1

\* C5: on a non-empty string, an exception from client construction, the service
\* call or the re-validation ends extract_menu_from_ocr with a generic Exception
\* whose message contains the original message, and with no value; a call ends
\* with a returned value or with one raised exception, never both.
C5_FailuresAreWrapped ==
    (op = "extract_menu_from_ocr" /\ NonEmptyText)
        => /\ pc # "done" => outcome = Pending
           /\ pc = "done" =>
                /\ outcome.kind \in {"returned", "raised"}
                /\ outcome.kind = "returned" => (outcome.exc = NoExc /\ original = NoExc)
                /\ outcome.kind = "raised" => (outcome.value = PyNone /\ original # NoExc)
                /\ original # NoExc =>
                     /\ outcome.kind = "raised"
                     /\ outcome.exc.cls = "Exception"
                     /\ Head(outcome.exc.msg) = "Failed to extract menu from OCR text: "
                     /\ Contains(outcome.exc.msg, original.msg)

C5_Witness ==
    /\ op = "extract_menu_from_ocr" /\ NonEmptyText
    /\ pc = "done" /\ nService = 1
    /\ original = Exc("ConnectionError", <<"connection reset">>)
    /\ outcome.kind = "raised"

\* the service call returned (it did not raise)
ServiceAnswered == nService = 1 /\ original \notin ExternalErrors

\* C6: once the service call has returned, a value that is not a Menu instance
\* makes the call fail and is never returned; a Menu instance, also one with no
\* items, is returned unchanged.
C6_ResponseRevalidated ==
    (op \in {"parse_menu_with_gemini", "extract_menu_from_ocr"}
       /\ pc = "done" /\ ServiceAnswered)
        => IF IsInstance(response, "Menu")
           THEN outcome = Returned(response)
           ELSE outcome.kind = "raised" /\ outcome.value = PyNone

C6_Witness ==
    /\ op = "parse_menu_with_gemini" /\ pc = "done" /\ ServiceAnswered
    /\ response = MenuObj(<<>>)
    /\ outcome = Returned(MenuObj(<<>>))

\* C7: every value extract_menu_from_ocr returns, on every path, is a Menu whose
\* items all have the four fields name, date, price and type.
C7_ReturnsMenu ==
    (op = "extract_menu_from_ocr" /\ pc = "done" /\ outcome.kind = "returned")
        => /\ IsInstance(outcome.value, "Menu")
           /\ \A i \in 1..Len(outcome.value.val) :
                  DOMAIN outcome.value.val[i] = MenuItemFields

-----------------------------------------------------------------------------
(* The claims about the preprocessor (image_processing.py) *)

BlackPixelsReturned ==
    /\ op = "extract_black_pixels" /\ pc = "done"
    /\ IsInstance(image, "Image") /\ outcome.kind = "returned"

\* all the channels the input image stores for the pixel at p
StoredChannels(img, p) == { img.px[p][c] : c \in DOMAIN img.px[p] }

\* the colour of the pixel at p: the red, green and blue values, or the grey value
ColourChannels(img, p) ==
    IF img.mode = "L" THEN { img.px[p][1] }
    ELSE { img.px[p][1], img.px[p][2], img.px[p][3] }

\* C8 as stated: for every image and threshold t, the output pixel at each
\* coordinate is 0 if and only if all channels of the input pixel at that
\* coordinate are below t, and 255 otherwise.
C8_DarkIffAllStoredChannelsBelow ==
    BlackPixelsReturned
        => \A p \in Coords(image.width, image.height) :
               outcome.value.px[p] =
                   << IF \A v \in StoredChannels(image, p) : v < threshold THEN 0 ELSE 255 >>

\* C8 as amended: for every image and threshold t, the output pixel at each
\* coordinate is 0 if and only if the red, green and blue values of the input pixel
\* at that coordinate (the grey value of a grayscale image) are all below t, and
\* 255 otherwise, so a colour value equal to t makes the pixel light; the alpha
\* channel of an RGBA image takes no part; the decision for a pixel depends on
\* that pixel alone.
C8_DarkIffAllColourChannelsBelow ==
    BlackPixelsReturned
        => /\ DOMAIN outcome.value.px = Coords(image.width, image.height)
           /\ \A p \in Coords(image.width, image.height) :
                  outcome.value.px[p] =
                      << IF \A v \in ColourChannels(image, p) : v < threshold
                         THEN 0 ELSE 255 >>

C8_Witness ==
    /\ BlackPixelsReturned
    /\ image.mode = "RGBA" /\ threshold = DefaultThreshold
    /\ image.width = 2
    /\ image.px[<<1, 1>>] = <<0, 0, 0, 255>> /\ outcome.value.px[<<1, 1>>] = <<0>>
    /\ image.px[<<2, 1>>] = <<39, 40, 39, 255>> /\ outcome.value.px[<<2, 1>>] = <<255>>

\* C9: the image extract_black_pixels and preprocess_image return is of mode L,
\* has the width and height of the input, and holds only the values 0 and 255,
\* whatever the mode of the input.
C9_OutputIsBinaryL ==
    (op \in {"extract_black_pixels", "preprocess_image"}
       /\ pc = "done" /\ outcome.kind = "returned")
        => /\ IsInstance(image, "Image")
           /\ IsInstance(outcome.value, "Image")
           /\ outcome.value.mode = "L"
           /\ outcome.value.width = image.width
           /\ outcome.value.height = image.height
           /\ DOMAIN outcome.value.px = Coords(image.width, image.height)
           /\ \A p \in DOMAIN outcome.value.px : outcome.value.px[p] \in { <<0>>, <<255>> }

C9_Witness ==
    /\ op = "preprocess_image" /\ pc = "done" /\ outcome.kind = "returned"
    /\ image = file /\ image.mode = "RGBA"
    /\ image.width = 3 /\ image.height = 1
    /\ outcome.value.width = 3 /\ outcome.value.height = 1

\* every pixel is 0 in all its channels or 255 in all its channels
IsDarkPixel(v) == \A c \in DOMAIN v : v[c] = 0
IsLightPixel(v) == \A c \in DOMAIN v : v[c] = 255
IsBinaryImage(img) == \A p \in DOMAIN img.px : IsDarkPixel(img.px[p]) \/ IsLightPixel(img.px[p])

\* C10: on an image whose pixels are each fully dark or fully light,
\* extract_black_pixels with the default threshold 40 gives 0 exactly where the
\* input was dark and 255 exactly where it was light, and applying it to its own
\* result changes nothing.
C10_IdentityOnBinaryImages ==
    (BlackPixelsReturned /\ threshold = DefaultThreshold /\ IsBinaryImage(image))
        => /\ DOMAIN outcome.value.px = DOMAIN image.px
           /\ \A p \in DOMAIN image.px :
                  /\ outcome.value.px[p] = <<0>> <=> IsDarkPixel(image.px[p])
                  /\ outcome.value.px[p] = <<255>> <=> IsLightPixel(image.px[p])
           /\ extract_black_pixels(outcome.value, DefaultThreshold) = outcome.value

C10_Witness ==
    /\ BlackPixelsReturned /\ threshold = DefaultThreshold /\ IsBinaryImage(image)
    /\ image.mode = "RGB" /\ image.width = 2 /\ image.height = 2
    /\ \E p, q \in DOMAIN image.px : IsDarkPixel(image.px[p]) /\ IsLightPixel(image.px[q])

-----------------------------------------------------------------------------
(* The claims about the failures of the preprocessor (image_processing.py) *)

\* C11: image_processing has an operation apply_binarization that, given a
\* grayscale image, returns a mode-L image of the same size, and given a value
\* that is not an image raises TypeError.
C11_ApplyBinarizationExists ==
    (op = "apply_binarization" /\ pc = "done")
        => IF IsInstance(image, "Image")
           THEN /\ outcome.kind = "returned"
                /\ IsInstance(outcome.value, "Image")
                /\ outcome.value.mode = "L"
                /\ outcome.value.width = image.width
                /\ outcome.value.height = image.height
           ELSE /\ outcome.kind = "raised"
                /\ outcome.exc.cls = "TypeError"

\* the call ended with an IOError that carries the message of the failure under it
RaisedIOErrorWithCause ==
    /\ outcome.kind = "raised"
    /\ IsSubclass(outcome.exc.cls, "IOError")
    /\ original # NoExc
    /\ Contains(outcome.exc.msg, original.msg)

RaisedTypeError == outcome.kind = "raised" /\ outcome.exc.cls = "TypeError"

\* C12 as stated: open_image and preprocess_image on a path that does not exist
\* or whose file cannot be decoded raise an IOError whose message contains the
\* message of the underlying failure; extract_black_pixels and
\* convert_to_grayscale on a value that is not an image raise TypeError; no image
\* is returned in either case.
C12_BadInputNeverGivesAnImage ==
    /\ (op \in {"open_image", "preprocess_image"} /\ file \notin Images /\ pc = "done")
           => RaisedIOErrorWithCause
    /\ (op \in {"extract_black_pixels", "convert_to_grayscale"}
          /\ image \in NonImages /\ pc = "done")
           => RaisedTypeError

\* C12, amended: open_image and preprocess_image on a path that does not exist or
\* whose file is not recognised as an image raise an IOError whose message
\* contains the message of the underlying failure; on a file whose header is
\* readable and whose pixel data is not, open_image returns the image it opened
\* without reading the pixels, and preprocess_image raises the IOError of the
\* first read of the pixels; extract_black_pixels and convert_to_grayscale on a
\* value that is not an image raise TypeError.
C12_UnreadableFilesAndNonImagesRejected ==
    /\ (op \in {"open_image", "preprocess_image"}
          /\ file \in {Missing, Undecodable} /\ pc = "done")
           => /\ RaisedIOErrorWithCause
              /\ image = PyNone
    /\ (op = "preprocess_image" /\ file = Truncated /\ pc = "done")
           => /\ RaisedIOErrorWithCause
              /\ outcome.exc = LoadError
    /\ (op = "open_image" /\ file = Truncated /\ pc = "done")
           => /\ outcome.kind = "returned"
              /\ IsInstance(outcome.value, "Image")
              /\ ~Loadable(outcome.value)
    /\ (op \in {"extract_black_pixels", "convert_to_grayscale"}
          /\ image \in NonImages /\ pc = "done")
           => RaisedTypeError

C12_Witness ==
    /\ op = "preprocess_image" /\ file = Undecodable /\ pc = "done"
    /\ outcome.kind = "raised" /\ outcome.exc.cls = "IOError"
    /\ original.cls = "UnidentifiedImageError"

-----------------------------------------------------------------------------
(* The claims about the recogniser (ocr_service.py) *)

OcrInvoked == op = "extract_text_from_image"

\* C13: extract_text_from_image on a value that is not an image raises TypeError,
\* and does so with pytesseract.image_to_string never called and
\* pytesseract.pytesseract.tesseract_cmd never assigned.
C13_NonImageRejectedBeforeEngine ==
    (OcrInvoked /\ ~IsInstance(image, "Image"))
        => /\ engine = NoEngineCall
           /\ nCmdSet = 0
           /\ tesseract_cmd = DefaultCmd
           /\ pc \in {op, "done"}
           /\ pc = "done" => /\ outcome.kind = "raised"
                             /\ outcome.exc.cls = "TypeError"

C13_Witness ==
    /\ OcrInvoked /\ image \in NonImages /\ Truthy(TESSERACT_CMD)
    /\ pc = "done" /\ outcome.kind = "raised"

\* the failures of the engine itself: it exited with an error, or its binary is
\* missing
EngineKinds == {"TesseractError", "TesseractNotFoundError"}

\* C14: when pytesseract.image_to_string fails, extract_text_from_image raises
\* pytesseract.TesseractError if the failure is the engine's, and a plain Exception
\* if it is any other failure, the message containing the original message in both
\* cases; the failure reaches the caller in no other form.
C14_EngineFailuresMappedByKind ==
    (OcrInvoked /\ pc = "done" /\ engine # NoEngineCall /\ original # NoExc)
        => /\ outcome.kind = "raised"
           /\ outcome.exc.cls =
                  (IF original.cls \in EngineKinds THEN "TesseractError" ELSE "Exception")
           /\ Contains(outcome.exc.msg, original.msg)

\* C15: whatever string pytesseract.image_to_string answers, the empty string and
\* strings of whitespace included, extract_text_from_image returns that very
\* string and does not raise; the warning is logged exactly when the string is
\* empty or all whitespace.
C15_EngineTextReturnedVerbatim ==
    (OcrInvoked /\ pc = "done" /\ extracted_text # PyNone)
        => /\ IsInstance(extracted_text, "str")
           /\ outcome = Returned(extracted_text)
           /\ original = NoExc
           /\ warned <=> IsBlank(extracted_text)

C15_Witness ==
    /\ OcrInvoked /\ pc = "done"
    /\ extracted_text = PyStr(<<" ", "\n">>)
    /\ outcome.kind = "returned" /\ warned

-----------------------------------------------------------------------------
(* The claims about retries and the order of the checks (llm_parser.py) *)

\* C16: within one invocation of extract_menu_from_ocr, create_gemini_client runs
\* at most once, the client is built at most once and
\* client.chat.completions.create is called at most once; once either step has
\* failed the invocation has ended with the error raised, so no construction and
\* no service call follows a failure.
C16_NoRetry ==
    op = "extract_menu_from_ocr"
        => /\ nCreateClient <= 1 /\ nFromGemini <= 1 /\ nService <= 1
           /\ nService = 1 => nFromGemini = 1
           /\ original # NoExc => /\ pc = "done"
                                  /\ outcome.kind = "raised"

C16_Witness ==
    /\ op = "extract_menu_from_ocr" /\ pc = "done"
    /\ nCreateClient = 1 /\ nFromGemini = 1 /\ nService = 1
    /\ original = Exc("ConnectionError", <<"connection reset">>)
    /\ outcome.kind = "raised"

ClientMessage ==
    <<"Client must be an instance of instructor.client.Instructor, but got ">>

\* C18: parse_menu_with_gemini checks, in this order and before the prompt and
\* the service call, that the text is not empty, that it is a string, that the
\* client is an Instructor and that the credential is set: an empty text returns
\* the empty list even with a wrong client or no credential; a non-empty value
\* that is not a string raises the ValueError about the text whatever the client;
\* a non-empty string with a client that is not an Instructor raises the
\* ValueError about the client whatever the credential; in all these cases
\* client.chat.completions.create is never called.
C18_ArgumentsCheckedInOrder ==
    (op = "parse_menu_with_gemini"
       /\ (~Truthy(ocr_text) \/ ~IsInstance(ocr_text, "str")
             \/ ~IsInstance(client, "Instructor") \/ ~Truthy(GEMINI_API_KEY)))
        => /\ nService = 0 /\ nPrompt = 0
           /\ pc \in {op, "done"}
           /\ pc = "done" =>
                IF ~Truthy(ocr_text)
                THEN outcome = Returned(PyList(<<>>))
                ELSE /\ outcome.kind = "raised"
                     /\ outcome.exc.cls = "ValueError"
                     /\ outcome.exc.msg =
                          (IF ~IsInstance(ocr_text, "str")
                           THEN <<"OCR text must be a string">>
                           ELSE IF ~IsInstance(client, "Instructor")
                           THEN ClientMessage \o <<client.cls>>
                           ELSE KeyMissingMessage)

C18_Witness ==
    /\ op = "parse_menu_with_gemini" /\ pc = "done"
    /\ ocr_text = EmptyText
    /\ ~IsInstance(client, "Instructor") /\ ~Truthy(GEMINI_API_KEY)
    /\ outcome = Returned(PyList(<<>>))

-----------------------------------------------------------------------------
(* The claim about state shared between invocations *)

Globals == <<GEMINI_API_KEY, TESSERACT_CMD, tesseract_cmd>>

\* C17 as stated: no step of any call changes a module-level or process-global
\* variable, pytesseract.pytesseract.tesseract_cmd included.
C17_GlobalsNeverChange == [][Globals' = Globals]_vars

\* the command the engine is run with under the configuration
ConfiguredCmd == IF Truthy(TESSERACT_CMD) THEN TESSERACT_CMD ELSE DefaultCmd

\* C17, amended: the configuration never changes; the one global a call writes is
\* pytesseract.pytesseract.tesseract_cmd, written only by
\* extract_text_from_image, only when config.TESSERACT_CMD is set, and only with
\* that value; so the command the engine is run with depends on the
\* configuration alone, not on the calls made before.
C17_OnlyCommandPathWrittenFromConfig ==
    /\ [](/\ tesseract_cmd \in {DefaultCmd, ConfiguredCmd}
          /\ engine # NoEngineCall => engine.cmd = ConfiguredCmd)
    /\ [][/\ GEMINI_API_KEY' = GEMINI_API_KEY
          /\ TESSERACT_CMD' = TESSERACT_CMD
          /\ tesseract_cmd' # tesseract_cmd
               => /\ op = "extract_text_from_image"
                  /\ Truthy(TESSERACT_CMD)
                  /\ tesseract_cmd' = TESSERACT_CMD]_vars

C17_Witness ==
    /\ calls = MaxCalls
    /\ op = "extract_text_from_image" /\ pc = "done"
    /\ engine # NoEngineCall
    /\ tesseract_cmd = TESSERACT_CMD /\ tesseract_cmd # DefaultCmd
    /\ nCmdSet = 1

====
